---- MODULE Spec2Model ----
(***************************************************************************)
(* A model of src/main.py, the unemployment-analysis GUI: load_data,       *)
(* clean_data, the view handlers, open_file, update_dropdowns and the      *)
(* module-level startup code.                                              *)
(*                                                                         *)
(* Data representation.                                                    *)
(*   A column name is a sequence of tokens, each token either the blank    *)
(*   " " or a word without surrounding blanks, so that str.strip() is a    *)
(*   computation and not the identity.                                     *)
(*   A cell is a 4-tuple <<tag, s, n, d>>: a string ("str", s), a number   *)
(*   n/d ("num", kept as a reduced fraction so that a column mean is       *)
(*   exact), a timestamp ("ts", n an ordinal), NaN ("nan") or NaT ("nat"). *)
(*   A DataFrame is a record [isNone, columns, rows]; Python's None is the *)
(*   record None, whose isNone is TRUE.                                    *)
(*                                                                         *)
(* Outside the model: column labels that collide after stripping and       *)
(* renaming, non-numeric text in the numeric columns (both make pandas     *)
(* raise inside clean_data), floating-point rounding of the mean, and the  *)
(* drawing done by matplotlib/seaborn (a plot is modelled by the rows and  *)
(* the title handed to the plotting call).                                 *)
(***************************************************************************)
EXTENDS Integers, Sequences, FiniteSets, TLC

VARIABLES
    pc,              \* Spec: "startup", "gui", "crashed"; SpecClean: "input", "loaded", "cleaned"
    app_data,        \* the module global app_data
    region_var,      \* tk.StringVar region_var
    state_var,       \* tk.StringVar state_var
    region_options,  \* the entries of region_menu
    state_options,   \* the entries of state_menu
    event,           \* the handler that ran last, and how it ended
    dialogs,         \* the message boxes the last handler showed, in order
    summary,         \* <<s>> when the last handler showed the summary s, else <<>>
    plot,            \* <<p>> when the last handler opened a plot window, else <<>>
    exported,        \* <<f>> when the last handler wrote a file, else <<>>
    csv,             \* what load_data returned in the last handler (NoLoad: not called)
    file,            \* the path and content load_data was called with
    cleaned          \* what clean_data returned in the last handler

vars == <<pc, app_data, region_var, state_var, region_options, state_options,
          event, dialogs, summary, plot, exported, csv, file, cleaned>>

----------------------------------------------------------------------------
(* Bounds of the model *)

MaxRows == 2

MaxGuiRows == 2

\* rows of a table whose header lacks an expected column
MaxRowsInvalid == 1

----------------------------------------------------------------------------
(* Cells *)

NaN == <<"nan", "", 0, 1>>

NaT == <<"nat", "", 0, 1>>

Str(s) == <<"str", s, 0, 1>>

Num(n, d) == <<"num", "", n, d>>

Timestamp(o) == <<"ts", "", o, 1>>

\* pandas.isna on a scalar
IsNA(c) == c[1] \in {"nan", "nat"}

RECURSIVE Gcd(_, _)
Gcd(a, b) == IF b = 0 THEN a ELSE Gcd(b, a % b)

\* the number n/d as a cell, reduced
Frac(n, d) == LET g == Gcd(n, d) IN Num(n \div g, d \div g)

\* Python's None, and a DataFrame
None == [isNone |-> TRUE, columns |-> <<>>, rows |-> <<>>]

DataFrame(cols, rws) == [isNone |-> FALSE, columns |-> cols, rows |-> rws]

----------------------------------------------------------------------------
(* Column names *)

RECURSIVE LStrip(_)
LStrip(s) == IF s # <<>> /\ Head(s) = " " THEN LStrip(Tail(s)) ELSE s

RECURSIVE RStrip(_)
RStrip(s) ==
    IF s # <<>> /\ s[Len(s)] = " " THEN RStrip(SubSeq(s, 1, Len(s) - 1)) ELSE s

\* str.strip(): leading and trailing blanks removed
Strip(s) == RStrip(LStrip(s))

\* line 37-42: the columns= dictionary of data.rename, as key/value pairs in
\* the order they are written
rename_columns == <<
    << <<"Region">>, <<"State">> >>,
    << <<"Estimated Unemployment Rate (%)">>, <<"Estimated Unemployment Rate">> >>,
    << <<"Estimated Labour Participation Rate (%)">>,
       <<"Estimated Labour Participation Rate">> >>,
    << <<"Area">>, <<"Region">> >> >>

\* line 43-46
expected_columns == <<
    <<"State">>, <<"Date">>, <<"Frequency">>, <<"Estimated Unemployment Rate">>,
    <<"Estimated Employed">>, <<"Estimated Labour Participation Rate">>,
    <<"Region">> >>

Range(s) == {s[i] : i \in DOMAIN s}

\* a chained renaming, the last pair applied first: "Area" becomes "Region",
\* which then becomes "State"
RECURSIVE RenameChained(_, _)
RenameChained(c, mapping) ==
    IF mapping = <<>> THEN c
    ELSE LET n  == Len(mapping)
             c1 == IF c = mapping[n][1] THEN mapping[n][2] ELSE c
         IN RenameChained(c1, SubSeq(mapping, 1, n - 1))

\* DataFrame.rename(columns=mapping) on one label: the label is looked up
\* once in the dictionary
RenameLabel(c, mapping) ==
    IF \E i \in DOMAIN mapping : mapping[i][1] = c
    THEN mapping[CHOOSE i \in DOMAIN mapping : mapping[i][1] = c][2]
    ELSE c

\* DataFrame.rename(columns=mapping)
Rename(data, mapping) ==
    [data EXCEPT !.columns = [j \in DOMAIN data.columns |->
                                 RenameLabel(data.columns[j], mapping)]]

\* `col in data.columns`
HasColumn(data, col) == col \in Range(data.columns)

\* position of the column labelled col
ColIndex(data, col) == CHOOSE j \in DOMAIN data.columns : data.columns[j] = col

\* data[col], as the sequence of its cells
Column(data, col) == [i \in DOMAIN data.rows |-> data.rows[i][ColIndex(data, col)]]

\* data[col] = values
SetColumn(data, col, values) ==
    [data EXCEPT !.rows = [i \in DOMAIN data.rows |->
        [data.rows[i] EXCEPT ![ColIndex(data, col)] = values[i]]]]

----------------------------------------------------------------------------
(* Dates *)

\* the day, month and year of a text of the form dd-mm-yyyy, <<>> for any
\* other text
DateFields(s) ==
    CASE s = "31-05-2019" -> <<31, 5, 2019>>
      [] s = "30-06-2019" -> <<30, 6, 2019>>
      [] s = "31-06-2019" -> <<31, 6, 2019>>
      [] OTHER -> <<>>

DaysInMonth(m, y) ==
    IF m \in {4, 6, 9, 11} THEN 30
    ELSE IF m = 2 THEN (IF y % 4 = 0 /\ (y % 100 # 0 \/ y % 400 = 0) THEN 29 ELSE 28)
    ELSE 31

\* a parse that leaves what it cannot parse as it is, as errors='ignore'
\* does: the unparseable text stays in the column
ToDatetimeIgnore(c) ==
    IF c[1] # "str" THEN NaT
    ELSE LET f == DateFields(c[2])
         IN IF f # <<>> /\ f[2] \in 1..12 /\ f[1] \in 1..DaysInMonth(f[2], f[3])
            THEN Timestamp((f[3] * 12 + f[2]) * 32 + f[1])
            ELSE c

\* pd.to_datetime(..., errors='coerce') on one cell: a missing cell and a
\* text that is no valid date both become NaT
ToDatetime(c) ==
    IF c[1] # "str" THEN NaT
    ELSE LET f == DateFields(c[2])
         IN IF f # <<>> /\ f[2] \in 1..12 /\ f[1] \in 1..DaysInMonth(f[2], f[3])
            THEN Timestamp((f[3] * 12 + f[2]) * 32 + f[1])
            ELSE NaT

----------------------------------------------------------------------------
(* pandas operations used by clean_data *)

\* DataFrame.dropna(subset=...): the rows with no missing cell in the subset,
\* in their order
Dropna(data, subset) ==
    [data EXCEPT !.rows = SelectSeq(data.rows,
        LAMBDA r : \A k \in DOMAIN subset : ~IsNA(r[ColIndex(data, subset[k])]))]

RECURSIVE SumNum(_)
SumNum(s) ==
    IF s = <<>> THEN <<0, 1>>
    ELSE LET t == SumNum(Tail(s))
             h == Head(s)
         IN <<h[3] * t[2] + t[1] * h[4], h[4] * t[2]>>

\* Series.mean(): the mean of the non-missing cells, NaN when there is none
Mean(values) ==
    LET present == SelectSeq(values, LAMBDA c : ~IsNA(c))
        t == SumNum(present)
    IN IF present = <<>> THEN NaN ELSE Frac(t[1], t[2] * Len(present))

\* Series.fillna(value): a missing cell becomes value (and so stays missing
\* when value is NaN itself)
Fillna(values, value) ==
    [i \in DOMAIN values |-> IF IsNA(values[i]) THEN value ELSE values[i]]

----------------------------------------------------------------------------
(* Message boxes *)

\* a message box: text is the fixed part of the message, arg the formatted
\* string and cols the joined list that follow it
Dialog(kind, title, text, arg, cols) ==
    [kind |-> kind, title |-> title, text |-> text, arg |-> arg, cols |-> cols]

NoDataWarning == Dialog("showwarning", "Warning", "No data loaded.", "", <<>>)

FileNotFoundDialog(csv_file) ==
    Dialog("showerror", "Error", "File not found: ", csv_file, <<>>)

ErrorLoadingDialog(e) ==
    Dialog("showerror", "Error", "Error loading file: ", e, <<>>)

MissingColumnsDialog(cols) ==
    Dialog("showerror", "Error", "Missing columns in CSV: ", "", cols)

----------------------------------------------------------------------------
(* load_data, line 20-29 *)

\* What pd.read_csv finds at a path: a file holding a table, no file, a
\* directory, an empty file, or bytes it cannot parse.
Table(f) == [kind |-> "table", frame |-> f]

Unreadable == {[kind |-> k, frame |-> None] :
                 k \in {"absent", "directory", "empty", "garbled"}}

\* line 22: the exception pd.read_csv raises, "" when it returns
read_csv_raises(content) ==
    CASE content.kind = "table"     -> ""
      [] content.kind = "absent"    -> "FileNotFoundError"
      [] content.kind = "directory" -> "IsADirectoryError"
      [] content.kind = "empty"     -> "EmptyDataError"
      [] OTHER                      -> "ParserError"

\* the base class of an exception class
BaseOf(cls) ==
    CASE cls \in {"FileNotFoundError", "IsADirectoryError"} -> "OSError"
      [] cls \in {"EmptyDataError", "ParserError"}           -> "ValueError"
      [] cls \in {"OSError", "ValueError"}                   -> "Exception"
      [] OTHER                                               -> "BaseException"

\* isinstance(an exception of class cls, base): what an except clause tests
RECURSIVE IsInstance(_, _)
IsInstance(cls, base) ==
    \/ cls = base
    \/ cls # "BaseException" /\ IsInstance(BaseOf(cls), base)

\* load_data with the second handler written `except ValueError`: an
\* OSError other than FileNotFoundError reaches the caller
load_data_narrow(csv_file, content) ==
    LET e == read_csv_raises(content)
    IN IF e = ""
       THEN [ret |-> content.frame, dialogs |-> <<>>, raised |-> ""]
       ELSE IF IsInstance(e, "FileNotFoundError")
       THEN [ret |-> None, dialogs |-> <<FileNotFoundDialog(csv_file)>>, raised |-> ""]
       ELSE IF IsInstance(e, "ValueError")
       THEN [ret |-> None, dialogs |-> <<ErrorLoadingDialog(e)>>, raised |-> ""]
       ELSE [ret |-> None, dialogs |-> <<>>, raised |-> e]

\* load_data(csv_file), content being what read_csv finds at csv_file;
\* raised is the exception that leaves load_data, "" when it returns ret
load_data(csv_file, content) ==
    LET e == read_csv_raises(content)
    IN IF e = ""
       THEN [ret |-> content.frame, dialogs |-> <<>>, raised |-> ""]
       ELSE IF IsInstance(e, "FileNotFoundError")
       THEN [ret |-> None, dialogs |-> <<FileNotFoundDialog(csv_file)>>, raised |-> ""]
       ELSE IF IsInstance(e, "Exception")
       THEN [ret |-> None, dialogs |-> <<ErrorLoadingDialog(e)>>, raised |-> ""]
       ELSE [ret |-> None, dialogs |-> <<>>, raised |-> e]

----------------------------------------------------------------------------
(* clean_data, line 33-55 *)

\* line 35
StripColumns(data) ==
    [data EXCEPT !.columns = [j \in DOMAIN data.columns |-> Strip(data.columns[j])]]

\* line 47 stopping at the first absent column
missing_cols_first(data) ==
    LET m == SelectSeq(expected_columns, LAMBDA col : ~HasColumn(data, col))
    IN IF m = <<>> THEN m ELSE <<m[1]>>

\* line 47
missing_cols(data) == SelectSeq(expected_columns, LAMBDA col : ~HasColumn(data, col))

\* line 51
ConvertDate(data) ==
    SetColumn(data, <<"Date">>,
              [i \in DOMAIN data.rows |-> ToDatetime(Column(data, <<"Date">>)[i])])

\* line 52
DropMissing(data) ==
    Dropna(data, << <<"State">>, <<"Date">>, <<"Estimated Unemployment Rate">> >>)

\* line 53
FillEmployed(data) ==
    SetColumn(data, <<"Estimated Employed">>,
              Fillna(Column(data, <<"Estimated Employed">>), Num(0, 1)))

\* line 54
FillParticipation(data) ==
    LET col == Column(data, <<"Estimated Labour Participation Rate">>)
    IN SetColumn(data, <<"Estimated Labour Participation Rate">>,
                 Fillna(col, Mean(col)))

clean_data(data0) ==
    LET data == Rename(StripColumns(data0), rename_columns)
        miss == missing_cols(data)
    IN IF miss # <<>>
       THEN [ret |-> None, dialogs |-> <<MissingColumnsDialog(miss)>>]
       ELSE [ret |-> FillParticipation(FillEmployed(DropMissing(ConvertDate(data)))),
             dialogs |-> <<>>]

----------------------------------------------------------------------------
(* The tables a CSV file can hold *)

\* the header of "Unemployment in India.csv"
DatasetHeader == <<
    <<"Region">>, <<" ", "Date">>, <<" ", "Frequency">>,
    <<" ", "Estimated Unemployment Rate (%)">>, <<" ", "Estimated Employed">>,
    <<" ", "Estimated Labour Participation Rate (%)">>, <<"Area">> >>

\* the same columns in another order, "Area" before "Region", the two rates
\* without their "(%)" and blanks on both sides of some names
ReorderedHeader == <<
    <<"Area", " ">>, <<"Estimated Labour Participation Rate">>,
    <<" ", "Estimated Employed", " ">>, <<"Estimated Unemployment Rate">>,
    <<"Frequency">>, <<" ", " ", "Date">>, <<"Region">> >>

\* headers that lack some of the columns
NoAreaHeader == SubSeq(DatasetHeader, 1, 6)

NoRegionHeader == SubSeq(DatasetHeader, 2, 7)

NoDateHeader == <<DatasetHeader[1]>> \o SubSeq(DatasetHeader, 3, 7)

SparseHeader == << <<"Area">>, <<" ", "Frequency">>, <<"Region">> >>

Headers == {DatasetHeader, ReorderedHeader, NoAreaHeader, NoRegionHeader,
            NoDateHeader, SparseHeader}

\* the cells a column of the file can hold, by its stripped name: missing
\* cells everywhere but in Frequency and Area, a valid and an invalid date
CellsOf(name) ==
    CASE name = <<"Region">> -> {NaN, Str("Kerala")}
      [] name = <<"Area">> -> {Str("Rural")}
      [] name = <<"Date">> -> {NaN, Str("31-05-2019"), Str("31-06-2019")}
      [] name = <<"Frequency">> -> {Str("Monthly")}
      [] name \in {<<"Estimated Unemployment Rate (%)">>,
                   <<"Estimated Unemployment Rate">>} -> {NaN, Num(5, 1)}
      [] name = <<"Estimated Employed">> -> {NaN, Num(7, 1)}
      [] OTHER -> {NaN, Num(40, 1)}

RECURSIVE RowsOf(_)
RowsOf(header) ==
    IF header = <<>> THEN {<<>>}
    ELSE {<<c>> \o r : c \in CellsOf(Strip(Head(header))), r \in RowsOf(Tail(header))}

\* the rows of the files opened in the GUI, none of them dropped by
\* clean_data: two states, two dates, two areas and a missing area
GuiRecords == {
    [state |-> "Kerala", date |-> "31-05-2019", area |-> Str("Rural")],
    [state |-> "Kerala", date |-> "30-06-2019", area |-> Str("Rural")],
    [state |-> "Goa",    date |-> "30-06-2019", area |-> Str("Urban")],
    [state |-> "Goa",    date |-> "30-06-2019", area |-> NaN] }

GuiCell(rec, name) ==
    CASE name = <<"Region">> -> Str(rec.state)
      [] name = <<"Area">> -> rec.area
      [] name = <<"Date">> -> Str(rec.date)
      [] name = <<"Frequency">> -> Str("Monthly")
      [] name = <<"Estimated Unemployment Rate (%)">> -> Num(5, 1)
      [] name = <<"Estimated Employed">> -> Num(7, 1)
      [] OTHER -> Num(40, 1)

GuiRowsOf(header) ==
    {[j \in DOMAIN header |-> GuiCell(rec, Strip(header[j]))] : rec \in GuiRecords}

\* whether every expected column can be found under the header
Complete(header) == header \in {DatasetHeader, ReorderedHeader}

RowBound(header) == IF Complete(header) THEN MaxRows ELSE MaxRowsInvalid

GuiRowBound(header) == IF Complete(header) THEN MaxGuiRows ELSE MaxRowsInvalid

----------------------------------------------------------------------------
(* SpecClean: load_data and clean_data applied to every file of the bounds *)

NoEvent == [name |-> "", raised |-> "", loaded |-> FALSE]

NoResult == [ret |-> None, dialogs |-> <<>>]

NoLoad == [ret |-> None, dialogs |-> <<>>, raised |-> ""]

NoFile == [path |-> "", content |-> [kind |-> "", frame |-> None]]

InitClean ==
    /\ pc = "input"
    /\ \/ \E c \in Unreadable : file = [path |-> "other.csv", content |-> c]
       \/ \E h \in Headers : \E k \in 0..RowBound(h) :
             \E rws \in [1..k -> RowsOf(h)] :
                file = [path |-> "other.csv", content |-> Table(DataFrame(h, rws))]
    /\ app_data = None
    /\ region_var = "All"
    /\ state_var = "All"
    /\ region_options = <<Str("All")>>
    /\ state_options = <<Str("All")>>
    /\ event = NoEvent
    /\ dialogs = <<>>
    /\ summary = <<>>
    /\ plot = <<>>
    /\ exported = <<>>
    /\ csv = NoLoad
    /\ cleaned = NoResult

ApplyLoad ==
    /\ pc = "input"
    /\ pc' = "loaded"
    /\ csv' = load_data(file.path, file.content)
    /\ dialogs' = csv'.dialogs
    /\ UNCHANGED <<app_data, region_var, state_var, region_options, state_options,
                   event, summary, plot, exported, file, cleaned>>

ApplyClean ==
    /\ pc = "loaded"
    /\ csv.raised = ""
    /\ ~csv.ret.isNone
    /\ pc' = "cleaned"
    /\ cleaned' = clean_data(csv.ret)
    /\ dialogs' = cleaned'.dialogs
    /\ UNCHANGED <<app_data, region_var, state_var, region_options, state_options,
                   event, summary, plot, exported, file, csv>>

NextClean == ApplyLoad \/ ApplyClean

SpecClean == InitClean /\ [][NextClean]_vars

----------------------------------------------------------------------------
(* Dropdown options, line 174-175 and 209, 215 *)

\* Series.unique(): the distinct cells in order of first appearance
RECURSIVE Unique(_)
Unique(values) ==
    IF values = <<>> THEN <<>>
    ELSE LET n    == Len(values)
             init == Unique(SubSeq(values, 1, n - 1))
         IN IF values[n] \in Range(init) THEN init ELSE Append(init, values[n])

\* the strings of the model in the order Python's < gives them
Alphabet == <<"All", "Goa", "Kerala", "Rural", "Urban">>

StrLess(a, b) ==
    (CHOOSE i \in DOMAIN Alphabet : Alphabet[i] = a)
        < (CHOOSE i \in DOMAIN Alphabet : Alphabet[i] = b)

\* insertion of a string cell into a sorted sequence of string cells
RECURSIVE Insert(_, _)
Insert(c, sorted) ==
    IF sorted = <<>> THEN <<c>>
    ELSE IF StrLess(c[2], Head(sorted)[2]) THEN <<c>> \o sorted
    ELSE <<Head(sorted)>> \o Insert(c, Tail(sorted))

RECURSIVE SortStrings(_)
SortStrings(cells) ==
    IF cells = <<>> THEN <<>> ELSE Insert(Head(cells), SortStrings(Tail(cells)))

\* sorted(list): a list holding both a str and a float NaN cannot be
\* ordered and sorted raises TypeError; a list of one NaN is returned as is
Sorted(cells) ==
    IF \A i \in DOMAIN cells : cells[i][1] = "str"
    THEN [raised |-> "", list |-> SortStrings(cells)]
    ELSE IF Len(cells) = 1
    THEN [raised |-> "", list |-> cells]
    ELSE [raised |-> "TypeError", list |-> <<>>]

\* ["All"] + sorted(app_data[col].unique()) if app_data is not None else ["All"]
OptionsOf(data, col) ==
    IF data.isNone THEN [raised |-> "", list |-> <<Str("All")>>]
    ELSE LET srt == Sorted(Unique(Column(data, col)))
         IN [raised |-> srt.raised, list |-> <<Str("All")>> \o srt.list]

\* the string a Tk variable holds after var.set(option)
TclStr(option) == IF option[1] = "str" THEN option[2] ELSE "nan"

----------------------------------------------------------------------------
(* The summary and the data handed to the plotting calls *)

NumericColumns == {<<"Estimated Unemployment Rate">>, <<"Estimated Employed">>,
                   <<"Estimated Labour Participation Rate">>}

\* app_data.describe(), its count and mean rows
Describe(data) ==
    [col \in NumericColumns |->
        [count |-> Len(SelectSeq(Column(data, col), LAMBDA c : ~IsNA(c))),
         mean  |-> Mean(Column(data, col))]]

\* line 70: the rows plotted by plot_unemployment_by_region
FilterRegion(data, selected_region) ==
    IF selected_region = "All" THEN data.rows
    ELSE SelectSeq(data.rows,
                   LAMBDA r : r[ColIndex(data, <<"Region">>)] = Str(selected_region))

\* Series.max() of the Date column, NaT when there is no row
MaxDate(data) ==
    LET dates == Column(data, <<"Date">>)
    IN IF dates = <<>> THEN NaT
       ELSE dates[CHOOSE i \in DOMAIN dates : \A j \in DOMAIN dates : dates[j][3] <= dates[i][3]]

\* the rows holding each state's own latest date
LatestPerState(data) ==
    LET d == ColIndex(data, <<"Date">>)
        s == ColIndex(data, <<"State">>)
    IN SelectSeq(data.rows,
                 LAMBDA r : \A i \in DOMAIN data.rows :
                     data.rows[i][s] = r[s] => data.rows[i][d][3] <= r[d][3])

\* line 87: app_data[app_data['Date'] == app_data['Date'].max()]
Latest(data) ==
    SelectSeq(data.rows, LAMBDA r : r[ColIndex(data, <<"Date">>)] = MaxDate(data))

\* line 88
FilterState(data, rws, selected_state) ==
    IF selected_state = "All" THEN rws
    ELSE SelectSeq(rws, LAMBDA r : r[ColIndex(data, <<"State">>)] = Str(selected_state))

\* insertion of a row into a sequence of rows sorted by column j
RECURSIVE InsertRow(_, _, _)
InsertRow(r, sorted, j) ==
    IF sorted = <<>> THEN <<r>>
    ELSE IF r[j][3] * Head(sorted)[j][4] < Head(sorted)[j][3] * r[j][4]
    THEN <<r>> \o sorted
    ELSE <<Head(sorted)>> \o InsertRow(r, Tail(sorted), j)

\* line 91: filtered.sort_values(by='Estimated Unemployment Rate'), rows of
\* equal rate kept in their order
RECURSIVE SortValues(_, _)
SortValues(rws, j) ==
    IF rws = <<>> THEN <<>>
    ELSE InsertRow(rws[Len(rws)], SortValues(SubSeq(rws, 1, Len(rws) - 1), j), j)

\* line 109-110: the (State, Month) cells of the pivot table, each with the
\* mean rate of its rows
Pivot(data) ==
    LET s == ColIndex(data, <<"State">>)
        d == ColIndex(data, <<"Date">>)
        u == ColIndex(data, <<"Estimated Unemployment Rate">>)
        keys == {<<data.rows[i][s], data.rows[i][d][3] \div 32>> : i \in DOMAIN data.rows}
        RatesOf(k) ==
            LET m == SelectSeq(data.rows,
                               LAMBDA r : r[s] = k[1] /\ r[d][3] \div 32 = k[2])
            IN [i \in DOMAIN m |-> m[i][u]]
    IN {[state |-> k[1], month |-> k[2], rate |-> Mean(RatesOf(k))] : k \in keys}

\* line 124-125: the three columns handed to .corr()
CorrelationData(data) ==
    [i \in DOMAIN data.rows |->
        <<data.rows[i][ColIndex(data, <<"Estimated Unemployment Rate">>)],
          data.rows[i][ColIndex(data, <<"Estimated Employed">>)],
          data.rows[i][ColIndex(data, <<"Estimated Labour Participation Rate">>)]>>]

\* a plot window: the plotting call, its title, the selection in the title,
\* the rows plotted and, for the heatmap, the pivot cells
Figure(kind, title, selected, rws, cells) ==
    [kind |-> kind, title |-> title, selected |-> selected, rows |-> rws,
     cells |-> cells]

----------------------------------------------------------------------------
(* The GUI: startup and the event handlers *)

csv_file == "Unemployment in India.csv"

OpenPath == "other.csv"

SavePath == "summary.csv"

GuiHeaders == {DatasetHeader, NoDateHeader}

Event(name, raised, loaded) == [name |-> name, raised |-> raised, loaded |-> loaded]

SuccessDialog ==
    Dialog("showinfo", "Info", "Data loaded and cleaned successfully.", "", <<>>)

SummaryDialog == Dialog("showinfo", "Summary", "str(summary)", "", <<>>)

ExportDialog(export_path) ==
    Dialog("showinfo", "Export", "Summary exported to ", export_path, <<>>)

HelpDialog == Dialog("showinfo", "Help / About", "Unemployment Analysis GUI", "", <<>>)

NoOutput == summary' = <<>> /\ plot' = <<>> /\ exported' = <<>>

NoLoading == csv' = NoLoad /\ file' = NoFile /\ cleaned' = NoResult

Init ==
    /\ pc = "startup"
    /\ app_data = None
    /\ region_var = ""
    /\ state_var = ""
    /\ region_options = <<>>
    /\ state_options = <<>>
    /\ event = NoEvent
    /\ dialogs = <<>>
    /\ summary = <<>>
    /\ plot = <<>>
    /\ exported = <<>>
    /\ csv = NoLoad
    /\ file = NoFile
    /\ cleaned = NoResult

\* line 185-218, the file csv_file being absent
StartupNoFile ==
    /\ pc = "startup"
    /\ pc' = "gui"
    /\ app_data' = None
    /\ dialogs' = <<FileNotFoundDialog(csv_file)>>
    /\ region_options' = <<Str("All")>>
    /\ state_options' = <<Str("All")>>
    /\ region_var' = "All"
    /\ state_var' = "All"
    /\ event' = Event("startup", "", FALSE)
    /\ NoOutput
    /\ NoLoading

\* line 185-218, the file csv_file existing with the given content
StartupLoad(content) ==
    \E data \in {load_data(csv_file, content)} :
    \E cl \in {IF data.raised = "" /\ ~data.ret.isNone
                THEN clean_data(data.ret) ELSE NoResult} :
    \E ro \in {OptionsOf(cl.ret, <<"Region">>)} :
    \E so \in {OptionsOf(cl.ret, <<"State">>)} :
    \E exc \in {IF data.raised # "" THEN data.raised
                 ELSE IF ro.raised # "" THEN ro.raised ELSE so.raised} :
       /\ pc = "startup"
       /\ file' = [path |-> csv_file, content |-> content]
       /\ csv' = data
       /\ cleaned' = cl
       /\ dialogs' = data.dialogs \o cl.dialogs
       /\ event' = Event("startup", exc, TRUE)
       /\ NoOutput
       /\ IF data.raised # ""
          THEN /\ pc' = "crashed"
               /\ UNCHANGED <<app_data, region_var, state_var, region_options,
                              state_options>>
          ELSE /\ app_data' = cl.ret
               /\ IF exc # ""
                  THEN /\ pc' = "crashed"
                       /\ UNCHANGED <<region_var, state_var, region_options,
                                      state_options>>
                  ELSE /\ pc' = "gui"
                       /\ region_options' = ro.list
                       /\ state_options' = so.list
                       /\ region_var' = "All"
                       /\ state_var' = "All"

Startup ==
    \/ StartupNoFile
    \/ \E c \in Unreadable : StartupLoad(c)
    \/ \E h \in GuiHeaders : \E k \in 0..GuiRowBound(h) :
          \E rws \in [1..k -> GuiRowsOf(h)] : StartupLoad(Table(DataFrame(h, rws)))

\* line 59-64
show_summary ==
    /\ pc = "gui"
    /\ event' = Event("show_summary", "", FALSE)
    /\ IF ~app_data.isNone
       THEN summary' = <<Describe(app_data)>> /\ dialogs' = <<SummaryDialog>>
       ELSE summary' = <<>> /\ dialogs' = <<NoDataWarning>>
    /\ plot' = <<>>
    /\ exported' = <<>>
    /\ NoLoading
    /\ UNCHANGED <<pc, app_data, region_var, state_var, region_options, state_options>>

\* a plot handler: when app_data is loaded the figure is shown, else the
\* warning
PlotHandler(name, fig) ==
    /\ pc = "gui"
    /\ event' = Event(name, "", FALSE)
    /\ IF ~app_data.isNone
       THEN plot' = <<fig>> /\ dialogs' = <<>>
       ELSE plot' = <<>> /\ dialogs' = <<NoDataWarning>>
    /\ summary' = <<>>
    /\ exported' = <<>>
    /\ NoLoading
    /\ UNCHANGED <<pc, app_data, region_var, state_var, region_options, state_options>>

\* line 67-81
plot_unemployment_by_region ==
    PlotHandler("plot_unemployment_by_region",
        Figure("lineplot", "Unemployment Rate Over Time by Region: ", region_var,
               FilterRegion(app_data, region_var), {}))

\* line 84-103
plot_latest_unemployment_by_state ==
    PlotHandler("plot_latest_unemployment_by_state",
        Figure("barplot", "Latest Unemployment Rate by State: ", state_var,
               SortValues(FilterState(app_data, Latest(app_data), state_var),
                          ColIndex(app_data, <<"Estimated Unemployment Rate">>)),
               {}))

\* line 106-119
plot_monthly_unemployment_heatmap ==
    PlotHandler("plot_monthly_unemployment_heatmap",
        Figure("heatmap", "Monthly Unemployment Rate by State (Annotated)", "",
               app_data.rows, Pivot(app_data)))

\* line 122-134 with show_plot_in_gui after the if statement: the window
\* opens without data too
plot_correlation_matrix_always ==
    /\ pc = "gui"
    /\ event' = Event("plot_correlation_matrix", "", FALSE)
    /\ plot' = <<Figure("heatmap", "Correlation Matrix of Employment Metrics", "",
                        IF app_data.isNone THEN <<>> ELSE CorrelationData(app_data), {})>>
    /\ dialogs' = IF app_data.isNone THEN <<NoDataWarning>> ELSE <<>>
    /\ summary' = <<>>
    /\ exported' = <<>>
    /\ NoLoading
    /\ UNCHANGED <<pc, app_data, region_var, state_var, region_options, state_options>>

\* line 122-134
plot_correlation_matrix ==
    PlotHandler("plot_correlation_matrix",
        Figure("heatmap", "Correlation Matrix of Employment Metrics", "",
               CorrelationData(app_data), {}))

\* line 136-144; export_path is "" when the save dialog is cancelled
export_summary ==
    /\ pc = "gui"
    /\ event' = Event("export_summary", "", FALSE)
    /\ \E export_path \in {"", SavePath} :
          IF ~app_data.isNone
          THEN IF export_path # ""
               THEN /\ exported' = <<[path |-> export_path,
                                      summary |-> Describe(app_data)]>>
                    /\ dialogs' = <<ExportDialog(export_path)>>
               ELSE exported' = <<>> /\ dialogs' = <<>>
          ELSE exported' = <<>> /\ dialogs' = <<NoDataWarning>>
    /\ summary' = <<>>
    /\ plot' = <<>>
    /\ NoLoading
    /\ UNCHANGED <<pc, app_data, region_var, state_var, region_options, state_options>>

\* line 160-170
show_help ==
    /\ pc = "gui"
    /\ event' = Event("show_help", "", FALSE)
    /\ dialogs' = <<HelpDialog>>
    /\ NoOutput
    /\ NoLoading
    /\ UNCHANGED <<pc, app_data, region_var, state_var, region_options, state_options>>

\* line 181: an entry of region_menu is chosen
select_region ==
    /\ pc = "gui"
    /\ \E i \in DOMAIN region_options : region_var' = TclStr(region_options[i])
    /\ event' = Event("select_region", "", FALSE)
    /\ dialogs' = <<>>
    /\ NoOutput
    /\ NoLoading
    /\ UNCHANGED <<pc, app_data, state_var, region_options, state_options>>

\* line 183: an entry of state_menu is chosen
select_state ==
    /\ pc = "gui"
    /\ \E i \in DOMAIN state_options : state_var' = TclStr(state_options[i])
    /\ event' = Event("select_state", "", FALSE)
    /\ dialogs' = <<>>
    /\ NoOutput
    /\ NoLoading
    /\ UNCHANGED <<pc, app_data, region_var, region_options, state_options>>

\* line 172-183, for the value data of app_data: the new values of
\* region_options, state_options, region_var and state_var, or the
\* exception raised before any of them is touched
update_dropdowns(data) ==
    LET ro == OptionsOf(data, <<"Region">>)
        so == OptionsOf(data, <<"State">>)
    IN [raised |-> IF ro.raised # "" THEN ro.raised ELSE so.raised,
        region_options |-> ro.list, state_options |-> so.list,
        region_var |-> "All", state_var |-> "All"]

\* line 146-158, the file dialog being cancelled
OpenCancelled ==
    /\ pc = "gui"
    /\ event' = Event("open_file", "", FALSE)
    /\ dialogs' = <<>>
    /\ NoOutput
    /\ NoLoading
    /\ UNCHANGED <<pc, app_data, region_var, state_var, region_options, state_options>>

\* line 146-158, file_path chosen and holding content
OpenFile(file_path, content) ==
    \E data \in {load_data(file_path, content)} :
    \E cl \in {IF data.raised = "" /\ ~data.ret.isNone
                THEN clean_data(data.ret) ELSE NoResult} :
    \E upd \in {update_dropdowns(cl.ret)} :
       /\ pc = "gui"
       /\ file' = [path |-> file_path, content |-> content]
       /\ csv' = data
       /\ cleaned' = cl
       /\ NoOutput
       /\ pc' = pc
       /\ IF data.raised # "" \/ data.ret.isNone
          THEN /\ event' = Event("open_file", data.raised, TRUE)
               /\ dialogs' = data.dialogs
               /\ UNCHANGED <<app_data, region_var, state_var, region_options,
                              state_options>>
          ELSE IF cl.ret.isNone
          THEN /\ event' = Event("open_file", "", TRUE)
               /\ dialogs' = cl.dialogs
               /\ app_data' = None
               /\ UNCHANGED <<region_var, state_var, region_options, state_options>>
          ELSE /\ app_data' = cl.ret
               /\ event' = Event("open_file", upd.raised, TRUE)
               /\ IF upd.raised # ""
                  THEN /\ dialogs' = <<>>
                       /\ UNCHANGED <<region_var, state_var, region_options,
                                      state_options>>
                  ELSE /\ dialogs' = <<SuccessDialog>>
                       /\ region_options' = upd.region_options
                       /\ state_options' = upd.state_options
                       /\ region_var' = upd.region_var
                       /\ state_var' = upd.state_var

open_file ==
    \/ OpenCancelled
    \/ \E c \in Unreadable : OpenFile(OpenPath, c)
    \/ \E h \in GuiHeaders : \E k \in 0..GuiRowBound(h) :
          \E rws \in [1..k -> GuiRowsOf(h)] :
             OpenFile(OpenPath, Table(DataFrame(h, rws)))

Next ==
    \/ Startup
    \/ open_file
    \/ show_summary
    \/ plot_unemployment_by_region
    \/ plot_latest_unemployment_by_state
    \/ plot_monthly_unemployment_heatmap
    \/ plot_correlation_matrix
    \/ export_summary
    \/ show_help
    \/ select_region
    \/ select_state

Spec == Init /\ [][Next]_vars

----------------------------------------------------------------------------
(* Properties of clean_data, stated on its input csv.ret and its result    *)
(* cleaned, after ApplyClean                                               *)

\* the raw table has a column whose stripped name is name
HasRaw(f, name) == \E j \in DOMAIN f.columns : Strip(f.columns[j]) = name

RawIndex(f, name) == CHOOSE j \in DOMAIN f.columns : Strip(f.columns[j]) = name

\* the stripped names of the file under which an expected column is found
SourceNames(col) ==
    CASE col = <<"State">> -> {<<"Region">>, <<"State">>}
      [] col = <<"Region">> -> {<<"Area">>}
      [] col = <<"Estimated Unemployment Rate">> ->
            {<<"Estimated Unemployment Rate (%)">>, <<"Estimated Unemployment Rate">>}
      [] col = <<"Estimated Labour Participation Rate">> ->
            {<<"Estimated Labour Participation Rate (%)">>,
             <<"Estimated Labour Participation Rate">>}
      [] OTHER -> {col}

\* the cell of a raw row that belongs under the expected column col
SourceCell(f, row, col) ==
    row[CHOOSE j \in DOMAIN f.columns : Strip(f.columns[j]) \in SourceNames(col)]

\* the texts of the model that are valid dates
ValidDateTexts == {"31-05-2019", "30-06-2019"}

\* the raw rows clean_data is to keep
Retained(f) ==
    SelectSeq(f.rows, LAMBDA r :
        /\ ~IsNA(SourceCell(f, r, <<"State">>))
        /\ SourceCell(f, r, <<"Date">>)[1] = "str"
        /\ SourceCell(f, r, <<"Date">>)[2] \in ValidDateTexts
        /\ ~IsNA(SourceCell(f, r, <<"Estimated Unemployment Rate">>)))

RECURSIVE IsSubsequence(_, _)
IsSubsequence(a, b) ==
    IF a = <<>> THEN TRUE
    ELSE IF b = <<>> THEN FALSE
    ELSE IF Head(a) = Head(b) THEN IsSubsequence(Tail(a), Tail(b))
    ELSE IsSubsequence(a, Tail(b))

\* C2: for a file with a "Region" and an "Area" column, neither "State" nor
\* "Region" is reported missing, and in the cleaned table the pairs
\* (State, Region) are, in order, pairs (Region, Area) of rows of the file;
\* no State cell is a value of the file's Area column.
C2_RenameSimultaneous ==
    (pc = "cleaned" /\ HasRaw(csv.ret, <<"Region">>) /\ HasRaw(csv.ret, <<"Area">>)) =>
        LET in  == csv.ret
            out == cleaned.ret
            src == [i \in DOMAIN in.rows |->
                      <<in.rows[i][RawIndex(in, <<"Region">>)],
                        in.rows[i][RawIndex(in, <<"Area">>)]>>]
        IN /\ \A d \in Range(cleaned.dialogs) :
                 <<"State">> \notin Range(d.cols) /\ <<"Region">> \notin Range(d.cols)
           /\ ~out.isNone =>
                 /\ HasColumn(out, <<"State">>) /\ HasColumn(out, <<"Region">>)
                 /\ IsSubsequence(
                        [k \in DOMAIN out.rows |->
                            <<Column(out, <<"State">>)[k], Column(out, <<"Region">>)[k]>>],
                        src)
                 /\ \A k \in DOMAIN out.rows : \A i \in DOMAIN src :
                        Column(out, <<"State">>)[k] # src[i][2]

\* a file with "Area" before "Region" was cleaned, a row was dropped and a
\* row was kept
C2_Witness ==
    /\ pc = "cleaned"
    /\ csv.ret.columns = ReorderedHeader
    /\ ~cleaned.ret.isNone
    /\ Len(cleaned.ret.rows) = 1
    /\ Len(csv.ret.rows) = 2

\* the expected columns that cannot be found in the file, in expected order
AbsentColumns(f) ==
    SelectSeq(expected_columns,
              LAMBDA col : ~\E j \in DOMAIN f.columns : Strip(f.columns[j]) \in SourceNames(col))

\* C3: clean_data returns None, with one error dialog, exactly when an
\* expected column is absent; the dialog lists the absent columns in the
\* expected order; a returned table has all seven columns and no dialog.
C3_ColumnValidation ==
    pc = "cleaned" =>
        LET absent == AbsentColumns(csv.ret)
        IN /\ cleaned.ret.isNone <=> absent # <<>>
           /\ absent # <<>> => cleaned.dialogs = <<MissingColumnsDialog(absent)>>
           /\ absent = <<>> =>
                 /\ cleaned.dialogs = <<>>
                 /\ \A c \in Range(expected_columns) : HasColumn(cleaned.ret, c)

\* validation refused a file that lacks several columns
C3_Witness ==
    /\ pc = "cleaned"
    /\ cleaned.ret.isNone
    /\ Len(cleaned.dialogs) = 1
    /\ Len(cleaned.dialogs[1].cols) >= 2
    /\ Len(csv.ret.rows) >= 1

\* the cleaned row agrees with the raw row it comes from: Date is a
\* timestamp, a cell that was present is unchanged
SameRow(in, r, out, q) ==
    \A col \in Range(expected_columns) :
        LET a == SourceCell(in, r, col)
            b == q[ColIndex(out, col)]
        IN IF col = <<"Date">> THEN b[1] = "ts"
           ELSE IF col \in {<<"Estimated Employed">>,
                            <<"Estimated Labour Participation Rate">>}
           THEN IsNA(a) \/ b = a
           ELSE b = a

\* C4: the cleaned table holds exactly the rows of the file whose State is
\* present, whose Date is a valid date and whose Estimated Unemployment Rate
\* is present, in their order; an unparseable Date drops the row and is no
\* error; no cleaned row misses State, Date or Estimated Unemployment Rate.
C4_RowsRetained ==
    (pc = "cleaned" /\ AbsentColumns(csv.ret) = <<>>) =>
        LET in   == csv.ret
            out  == cleaned.ret
            kept == Retained(in)
        IN /\ ~out.isNone
           /\ Len(out.rows) = Len(kept)
           /\ \A k \in DOMAIN out.rows :
                 /\ SameRow(in, kept[k], out, out.rows[k])
                 /\ ~IsNA(Column(out, <<"State">>)[k])
                 /\ ~IsNA(Column(out, <<"Date">>)[k])
                 /\ ~IsNA(Column(out, <<"Estimated Unemployment Rate">>)[k])

\* a row with an unparseable Date was dropped and the row after it kept
C4_Witness ==
    /\ pc = "cleaned"
    /\ ~cleaned.ret.isNone
    /\ Len(csv.ret.rows) = 2
    /\ SourceCell(csv.ret, csv.ret.rows[1], <<"Date">>) = Str("31-06-2019")
    /\ Len(cleaned.ret.rows) = 1

\* the sum of a sequence of whole-number cells
RECURSIVE SumCells(_)
SumCells(s) == IF s = <<>> THEN 0 ELSE Head(s)[3] + SumCells(Tail(s))

\* C5: no cleaned row misses Estimated Employed or Estimated Labour
\* Participation Rate: a missing Estimated Employed is 0, a missing
\* participation rate is the mean of the participation rates present in the
\* retained rows, and a value that was present is unchanged.
C5_FillPolicy ==
    (pc = "cleaned" /\ ~cleaned.ret.isNone) =>
        LET in   == csv.ret
            out  == cleaned.ret
            kept == Retained(in)
            lpr  == [k \in DOMAIN kept |->
                        SourceCell(in, kept[k], <<"Estimated Labour Participation Rate">>)]
            have == SelectSeq(lpr, LAMBDA c : ~IsNA(c))
        IN \A k \in DOMAIN out.rows :
              LET e  == Column(out, <<"Estimated Employed">>)[k]
                  l  == Column(out, <<"Estimated Labour Participation Rate">>)[k]
                  e0 == SourceCell(in, kept[k], <<"Estimated Employed">>)
              IN /\ ~IsNA(e) /\ ~IsNA(l)
                 /\ e = (IF IsNA(e0) THEN Num(0, 1) ELSE e0)
                 /\ IF IsNA(lpr[k])
                    THEN l[1] = "num" /\ l[3] * Len(have) = SumCells(have) * l[4]
                    ELSE l = lpr[k]

----------------------------------------------------------------------------
(* Properties of the GUI, under Spec *)

ViewEvents == {"show_summary", "plot_unemployment_by_region",
               "plot_latest_unemployment_by_state",
               "plot_monthly_unemployment_heatmap", "plot_correlation_matrix",
               "export_summary"}

\* C1: a summary, a plot window or an exported file is produced only by a
\* view handler running with app_data loaded; a view handler running with
\* app_data None shows the 'No data loaded.' warning and nothing else; and
\* app_data only ever becomes a table in a step in which load_data returned
\* the table of the file and clean_data returned app_data's new value.
C1_ViewsNeedData ==
    /\ [](/\ (summary # <<>> \/ plot # <<>> \/ exported # <<>>) =>
                (event.name \in ViewEvents /\ ~app_data.isNone)
          /\ (event.name \in ViewEvents /\ app_data.isNone) =>
                (/\ dialogs = <<NoDataWarning>>
                 /\ summary = <<>> /\ plot = <<>> /\ exported = <<>>))
    /\ [][(app_data' # app_data /\ ~app_data'.isNone) =>
             /\ event'.name \in {"startup", "open_file"}
             /\ file'.content.kind = "table"
             /\ csv'.raised = ""
             /\ csv'.ret = file'.content.frame
             /\ cleaned'.dialogs = <<>>
             /\ cleaned'.ret = app_data']_vars

\* data was loaded, then discarded by a file that failed validation, and a
\* plot button then showed the warning
C1_Witness ==
    /\ event.name = "plot_correlation_matrix"
    /\ app_data.isNone
    /\ dialogs = <<NoDataWarning>>
    /\ Len(region_options) > 1

ReadErrors == {"FileNotFoundError", "IsADirectoryError", "EmptyDataError", "ParserError"}

\* C6: whenever startup or Open CSV File has called load_data, no exception
\* left it or the handler because of the read; for a readable file it
\* returned the table and showed nothing; otherwise it returned None and
\* showed exactly one error dialog, 'File not found' with the path when the
\* file does not exist and 'Error loading file' for any other failure, and
\* the program goes on.
C6_LoadNeverRaises ==
    event.loaded =>
        /\ csv.raised = ""
        /\ event.raised \notin ReadErrors
        /\ IF file.content.kind = "table"
           THEN csv.ret = file.content.frame /\ csv.dialogs = <<>>
           ELSE /\ csv.ret.isNone
                /\ Len(csv.dialogs) = 1
                /\ csv.dialogs[1].kind = "showerror"
                /\ IF file.content.kind = "absent"
                   THEN /\ csv.dialogs[1].text = "File not found: "
                        /\ csv.dialogs[1].arg = file.path
                   ELSE csv.dialogs[1].text = "Error loading file: "
                /\ dialogs = csv.dialogs
                /\ pc = "gui"

\* at startup the path was a directory; the GUI came up after one dialog
C6_Witness ==
    /\ event.name = "startup"
    /\ event.loaded
    /\ file.content.kind = "directory"
    /\ Len(dialogs) = 1
    /\ pc = "gui"

\* the same rows, whatever their order
SameBag(a, b) ==
    \A x \in Range(a) \cup Range(b) :
        Cardinality({i \in DOMAIN a : a[i] = x}) = Cardinality({i \in DOMAIN b : b[i] = x})

CellOf(r, col) == r[ColIndex(app_data, col)]

\* C7: the region plot shows all rows of app_data for the selection 'All'
\* and otherwise exactly the rows whose Region is the selection, in order;
\* the latest-by-state plot shows the rows whose Date is the greatest Date of
\* the whole table, and of those only the rows of the selected state unless
\* the selection is 'All'.
C7_FiltersSelect ==
    /\ (event.name = "plot_unemployment_by_region" /\ plot # <<>>) =>
          /\ plot[1].selected = region_var
          /\ plot[1].rows =
                SelectSeq(app_data.rows, LAMBDA r :
                    region_var = "All"
                    \/ (CellOf(r, <<"Region">>)[1] = "str"
                        /\ CellOf(r, <<"Region">>)[2] = region_var))
    /\ (event.name = "plot_latest_unemployment_by_state" /\ plot # <<>>) =>
          /\ plot[1].selected = state_var
          /\ SameBag(plot[1].rows,
                SelectSeq(app_data.rows, LAMBDA r :
                    /\ \A i \in DOMAIN app_data.rows :
                          CellOf(app_data.rows[i], <<"Date">>)[3] <= CellOf(r, <<"Date">>)[3]
                    /\ state_var = "All" \/ CellOf(r, <<"State">>) = Str(state_var)))

\* with Kerala selected, the latest plot is empty although app_data has a
\* Kerala row: Kerala's last date is older than the table's last date
C7_Witness ==
    /\ event.name = "plot_latest_unemployment_by_state"
    /\ plot # <<>>
    /\ state_var = "Kerala"
    /\ plot[1].rows = <<>>
    /\ \E i \in DOMAIN app_data.rows : CellOf(app_data.rows[i], <<"State">>) = Str("Kerala")

\* opts is 'All' followed by the distinct cells of column col of data, the
\* strings among them in ascending order; just 'All' when data is None
OptionsMatch(opts, data, col) ==
    IF data.isNone THEN opts = <<Str("All")>>
    ELSE /\ opts # <<>>
         /\ opts[1] = Str("All")
         /\ Range(Tail(opts)) = Range(Column(data, col))
         /\ Len(opts) = 1 + Cardinality(Range(Column(data, col)))
         /\ \A i, j \in 2..Len(opts) :
               (i < j /\ opts[i][1] = "str" /\ opts[j][1] = "str") =>
                   StrLess(opts[i][2], opts[j][2])

\* the selection is 'All' or the text of a cell of column col of data
SelectionOccurs(sel, data, col) ==
    \/ sel = "All"
    \/ ~data.isNone /\ \E c \in Range(Column(data, col)) : TclStr(c) = sel

DropdownsRebuilt ==
    /\ OptionsMatch(region_options, app_data, <<"Region">>)
    /\ OptionsMatch(state_options, app_data, <<"State">>)
    /\ region_var = "All"
    /\ state_var = "All"

\* C8: Open CSV File leaves app_data and both dropdowns unchanged when the
\* dialog is cancelled or load_data fails; sets app_data to None without a
\* success message when clean_data fails validation; and when both succeed
\* sets app_data to the cleaned table, rebuilds the dropdowns and shows the
\* success message.
C8_OpenFileOutcome ==
    [][event'.name = "open_file" =>
         IF ~event'.loaded \/ csv'.ret.isNone
         THEN UNCHANGED <<app_data, region_var, state_var, region_options,
                          state_options>>
         ELSE IF cleaned'.ret.isNone
         THEN app_data' = None /\ SuccessDialog \notin Range(dialogs')
         ELSE /\ app_data' = cleaned'.ret
              /\ DropdownsRebuilt'
              /\ SuccessDialog \in Range(dialogs')]_vars

\* C9: while the GUI runs, each dropdown lists 'All' followed by the sorted
\* distinct values of its column of app_data (just 'All' when app_data is
\* None), and each selection is 'All' or a value occurring in app_data.
C9_DropdownsConsistent ==
    pc = "gui" =>
        /\ OptionsMatch(region_options, app_data, <<"Region">>)
        /\ OptionsMatch(state_options, app_data, <<"State">>)
        /\ SelectionOccurs(region_var, app_data, <<"Region">>)
        /\ SelectionOccurs(state_var, app_data, <<"State">>)

====
